---- MODULE Spec2Model ----
(***************************************************************************)
(* Model of src/app.py: the BankrollTracker ledger (an in-memory DataFrame *)
(* of events mirrored in a Google Sheet) and the Streamlit handlers that   *)
(* drive it.                                                               *)
(*                                                                         *)
(* Amounts are whole euros (integers). Odds (Cote) are counted in tenths,  *)
(* so a stake m at odds c returns (m * c) \div 10; every stake used is a   *)
(* multiple of 10, which keeps the products exact. A cell of the sheet is  *)
(* a sequence: <<n>> holds the number n, <<>> holds text that is not a     *)
(* number (empty, "N/A", ...).                                             *)
(***************************************************************************)
EXTENDS Integers, Sequences, FiniteSets, TLC

VARIABLES
    feuille,            \* the worksheet: [colonnes, lignes] as last persisted
    df,                 \* self.df: the in-memory sequence of rows
    bankroll_actuelle,  \* self.bankroll_actuelle
    solde_initial,      \* self.solde_initial
    cache,              \* TRUE while st.cache_resource holds the tracker
    ret,                \* what the last core call returned (or "Exception")
    message,            \* what the last handler showed to the user
    appel               \* the gateway calls of the last operation and how they ended

vars == <<feuille, df, bankroll_actuelle, solde_initial, cache, ret, message, appel>>

----------------------------------------------------------------------------
(* Bounds and input sets *)

BANKROLL_INIT == 0

\* most rows the in-memory ledger may hold (guards the appends)
MaxRows == 3

\* most rows the ledger may hold in the application (guards the forms' appends)
MaxRowsApp == 2

\* most rows the sheet holds before the first session
MaxStored == 2

\* the wagers offered to ajouter_pari and add_pari: <<montant, cote, resultat>>,
\* the odds in tenths. Stake 0 and odds 0.9 are the out-of-domain values, "Nul"
\* the result that is none of the three
Paris ==
    {<<10, 25, "Gagne">>, <<10, 25, "Perdu">>, <<10, 25, "Annule">>,
     <<0, 25, "Gagne">>, <<10, 9, "Gagne">>, <<10, 25, "Nul">>}

\* the fund movements offered to ajouter_fonds: <<montant, type_operation>>
Fonds ==
    {<<10, "DEPOT">>, <<10, "RETRAIT">>, <<-10, "RETRAIT">>, <<10, "VIREMENT">>}

\* the form data offered to add_pari: <<date, montant, cote, resultat>>, every
\* wager above under a well-formed date and one under a date strptime refuses
Formulaires ==
    {<<"2024-01-15", p[1], p[2], p[3]>> : p \in Paris}
    \cup {<<"15/01/2024", 10, 25, "Gagne">>}

\* the starting balance the class is built with on its own; load_tracker
\* builds it with BANKROLL_INIT
SoldesInitiaux == {100}

IssuesLecture == {"ok", "sans_connexion", "erreur_lecture"}
IssuesEcriture == {"ok", "sans_connexion", "echec_clear", "echec_update"}

----------------------------------------------------------------------------
(* Rows *)

Ligne(date, type, montant, cote, resultat, gain, bankroll, details) ==
    [Date |-> date, Type |-> type, Montant_Pari |-> montant, Cote |-> cote,
     Resultat |-> resultat, Gain_Net |-> gain, Bankroll_Finale |-> bankroll,
     Details_Pari |-> details]

\* pd.to_numeric(..., errors='coerce').fillna(0.0) on one cell
ToNumeric(cellule) == IF Len(cellule) = 1 THEN cellule[1] ELSE 0

\* a read that works Gain_Net out again from the row's type, stake, odds and
\* result instead of taking the stored cell
ConvertirLigneRecalcule(brute) ==
    Ligne(brute.Date, brute.Type, ToNumeric(brute.Montant_Pari),
          ToNumeric(brute.Cote), brute.Resultat,
          IF brute.Type = "Pari" /\ brute.Resultat = "Gagne"
          THEN (ToNumeric(brute.Montant_Pari) * ToNumeric(brute.Cote)) \div 10
               - ToNumeric(brute.Montant_Pari)
          ELSE IF brute.Type = "Pari" /\ brute.Resultat = "Perdu"
          THEN 0 - ToNumeric(brute.Montant_Pari)
          ELSE IF brute.Type \in {"Pari", "DEBUT"} THEN 0
          ELSE ToNumeric(brute.Gain_Net),
          ToNumeric(brute.Bankroll_Finale), brute.Details_Pari)

\* a row of the sheet as the tracker reads it (lines 88-93)
ConvertirLigne(brute) ==
    Ligne(brute.Date, brute.Type, ToNumeric(brute.Montant_Pari),
          ToNumeric(brute.Cote), brute.Resultat, ToNumeric(brute.Gain_Net),
          ToNumeric(brute.Bankroll_Finale), brute.Details_Pari)

\* a row of the DataFrame as written to the sheet (line 151)
EcrireLigne(l) ==
    Ligne(l.Date, l.Type, <<l.Montant_Pari>>, <<l.Cote>>, l.Resultat,
          <<l.Gain_Net>>, <<l.Bankroll_Finale>>, l.Details_Pari)

FeuilleVide == [colonnes |-> FALSE, lignes |-> <<>>]

\* the sheet holding exactly the rows of d, headers included (lines 151-156)
FeuilleDe(d) ==
    [colonnes |-> TRUE, lignes |-> [i \in 1..Len(d) |-> EcrireLigne(d[i])]]

----------------------------------------------------------------------------
(* What the sheet may hold before the first session *)

CellulesSolde == {<<>>, <<50>>}

LigneBrute(type, gain, solde) ==
    IF type = "DEBUT"
    THEN Ligne("2024-01-01", type, <<0>>, <<0>>, "N/A", gain, solde, "N/A")
    ELSE Ligne("2024-01-02", type, <<10>>, <<25>>, "Gagne", gain, solde, "General")

\* the stored rows: a DEBUT row whose Gain_Net is text or a number, a Pari row
\* whose Gain_Net is not what its stake, odds and result give, each with any
\* Bankroll_Finale cell
LignesBrutes ==
    {LigneBrute("DEBUT", <<>>, s) : s \in CellulesSolde}
    \cup {LigneBrute("DEBUT", <<20>>, <<50>>)}
    \cup {LigneBrute("Pari", <<20>>, s) : s \in CellulesSolde}

SeqJusqua(S, n) == UNION {[1..k -> S] : k \in 0..n}

\* every sheet of at most MaxStored rows with the expected columns, and a
\* sheet that lacks one of them
Feuilles ==
    {[colonnes |-> TRUE, lignes |-> l] : l \in SeqJusqua(LignesBrutes, MaxStored)}
    \cup {[colonnes |-> FALSE, lignes |-> <<LigneBrute("DEBUT", <<>>, <<50>>)>>]}

\* what the application's sheet may hold before its first run: nothing, one
\* row of any kind, or a ledger an earlier run saved (a DEBUT row and a won
\* wager of 10 at odds 2.5)
FeuillesApp ==
    {f \in Feuilles : Len(f.lignes) <= 1}
    \cup {[colonnes |-> TRUE,
           lignes |-> <<Ligne("2024-01-01", "DEBUT", <<0>>, <<0>>, "N/A", <<0>>, <<0>>,
                              "N/A"),
                        Ligne("2024-01-02", "Pari", <<10>>, <<25>>, "Gagne", <<15>>,
                              <<15>>, "General")>>]}

----------------------------------------------------------------------------
(* BankrollTracker *)

\* _creer_df_initial: the single DEBUT row
CreerDfInitial(solde) ==
    <<Ligne("aujourdhui", "DEBUT", 0, 0, "N/A", 0, solde, "N/A")>>

\* Series.cumsum() of the Gain_Net column, up to row i
RECURSIVE Cumsum(_, _)
Cumsum(d, i) == IF i = 0 THEN 0 ELSE Cumsum(d, i - 1) + d[i].Gain_Net

\* the index of the first row whose Type is DEBUT, 0 when there is none
PremierDebut(d) ==
    IF \E i \in 1..Len(d) : d[i].Type = "DEBUT"
    THEN CHOOSE i \in 1..Len(d) :
             /\ d[i].Type = "DEBUT"
             /\ \A j \in 1..(i - 1) : d[j].Type # "DEBUT"
    ELSE 0

\* a recomputation that keeps the Bankroll_Finale the sheet held
CalculerSansRecalcul(d, solde) == d

\* a recomputation that patches each stored Bankroll_Finale with its own row's
\* Gain_Net instead of summing from the DEBUT row
CalculerParLigne(d, solde) ==
    [i \in 1..Len(d) |->
        [d[i] EXCEPT !.Bankroll_Finale = d[i].Bankroll_Finale + d[i].Gain_Net]]

\* a recomputation that always starts from the configured starting balance
CalculerDepuisSolde(d, solde) ==
    [i \in 1..Len(d) |-> [d[i] EXCEPT !.Bankroll_Finale = solde + Cumsum(d, i)]]

\* calculer_bankroll_historique: the DataFrame it leaves in self.df
CalculerBankrollHistorique(d, solde) ==
    IF d = <<>> THEN d
    ELSE LET depart == IF PremierDebut(d) # 0
                       THEN d[PremierDebut(d)].Bankroll_Finale
                       ELSE solde
         IN [i \in 1..Len(d) |->
                [d[i] EXCEPT !.Bankroll_Finale = depart + Cumsum(d, i)]]

\* the rows _charger_ou_initialiser_df holds at line 106, before the DEBUT check
LireFeuille(f, issue, solde) ==
    IF issue = "ok"
    THEN IF f.lignes # <<>> /\ f.colonnes
         THEN [i \in 1..Len(f.lignes) |-> ConvertirLigne(f.lignes[i])]
         ELSE CreerDfInitial(solde)
    ELSE CreerDfInitial(solde)

\* a check that only refuses an empty DataFrame
AssurerNonVide(d, solde) == IF d = <<>> THEN CreerDfInitial(solde) ELSE d

\* lines 106-108: the first row must be the DEBUT row
AssurerDebut(d, solde) ==
    IF d = <<>> \/ d[1].Type # "DEBUT" THEN CreerDfInitial(solde) ELSE d

\* _charger_ou_initialiser_df: self.df after the load
ChargerOuInitialiserDf(f, issue, solde) ==
    CalculerBankrollHistorique(AssurerDebut(LireFeuille(f, issue, solde), solde), solde)

\* __init__, lines 64-67
BankrollDe(d, solde) ==
    IF d # <<>> THEN d[Len(d)].Bankroll_Finale ELSE solde

\* a save that appends the last row to what the sheet holds instead of
\* writing the whole DataFrame
SauvegarderDerniereLigne(d, f, issue) ==
    CASE issue = "sans_connexion" -> [feuille |-> f, ret |-> "False"]
      [] issue = "echec_clear"    -> [feuille |-> f, ret |-> "Exception"]
      [] issue = "echec_update"   -> [feuille |-> f, ret |-> "Exception"]
      [] OTHER                    ->
            [feuille |-> [colonnes |-> TRUE,
                          lignes |-> Append(f.lignes, EcrireLigne(d[Len(d)]))],
             ret |-> "True"]

\* _sauvegarder: the sheet it leaves and what the caller gets
Sauvegarder(d, f, issue) ==
    CASE issue = "sans_connexion" -> [feuille |-> f, ret |-> "False"]
      [] issue = "echec_clear"    -> [feuille |-> f, ret |-> "Exception"]
      [] issue = "echec_update"   -> [feuille |-> FeuilleVide, ret |-> "Exception"]
      [] OTHER                    -> [feuille |-> FeuilleDe(d), ret |-> "True"]

\* a test of the result that lets every value through
ResultatToujoursValide(resultat) == TRUE

\* the test of line 163
ResultatValide(resultat) == resultat \in {"Gagne", "Perdu", "Annule"}

\* a won wager credited with its whole return, the stake not taken off
GainNetPariBrut(montant_pari, cote, resultat) ==
    IF resultat = "Gagne" THEN (montant_pari * cote) \div 10
    ELSE IF resultat = "Perdu" THEN 0 - montant_pari
    ELSE 0

\* lines 166-171
GainNetPari(montant_pari, cote, resultat) ==
    IF resultat = "Gagne" THEN (montant_pari * cote) \div 10 - montant_pari
    ELSE IF resultat = "Perdu" THEN 0 - montant_pari
    ELSE 0

\* the test of line 188
TypeOperationValide(type_operation) == type_operation \in {"DEPOT", "RETRAIT"}

\* line 191
GainNetFonds(montant, type_operation) ==
    IF type_operation = "DEPOT" THEN montant ELSE 0 - montant

\* Python's truth value of what ajouter_pari / ajouter_fonds returned: True
\* and the non-empty error string are truthy, False is not
Truthy(r) == r \in {"True", "Erreur"}

\* an ajouter_pari that takes the new row back when the save did not succeed
EffetAjouterPariAnnule(d, b, f, date_str, montant_pari, cote, resultat, issue) ==
    IF ~ResultatValide(resultat)
    THEN [df |-> d, bankroll |-> b, feuille |-> f, ret |-> "Erreur",
          ecriture |-> "aucune"]
    ELSE LET gain_net == GainNetPari(montant_pari, cote, resultat)
             nouvelle_entree == Ligne(date_str, "Pari", montant_pari, cote, resultat,
                                      gain_net, b + gain_net, "General")
             s == Sauvegarder(Append(d, nouvelle_entree), f, issue)
         IN IF s.ret = "True"
            THEN [df |-> Append(d, nouvelle_entree), bankroll |-> b + gain_net,
                  feuille |-> s.feuille, ret |-> s.ret, ecriture |-> issue]
            ELSE [df |-> d, bankroll |-> b, feuille |-> s.feuille, ret |-> s.ret,
                  ecriture |-> issue]

\* an ajouter_pari that writes the new row at index len(df) - 1, over the last
\* event
EffetAjouterPariEcrase(d, b, f, date_str, montant_pari, cote, resultat, issue) ==
    IF ~ResultatValide(resultat)
    THEN [df |-> d, bankroll |-> b, feuille |-> f, ret |-> "Erreur",
          ecriture |-> "aucune"]
    ELSE LET gain_net == GainNetPari(montant_pari, cote, resultat)
             nouvelle_entree == Ligne(date_str, "Pari", montant_pari, cote, resultat,
                                      gain_net, b + gain_net, "General")
             nd == [d EXCEPT ![Len(d)] = nouvelle_entree]
             s == Sauvegarder(nd, f, issue)
         IN [df |-> nd, bankroll |-> b + gain_net, feuille |-> s.feuille,
             ret |-> s.ret, ecriture |-> issue]

\* ajouter_pari on a tracker holding (d, b) over the sheet f: what it leaves
EffetAjouterPari(d, b, f, date_str, montant_pari, cote, resultat, issue) ==
    IF ~ResultatValide(resultat)
    THEN [df |-> d, bankroll |-> b, feuille |-> f, ret |-> "Erreur",
          ecriture |-> "aucune"]
    ELSE LET gain_net == GainNetPari(montant_pari, cote, resultat)
             nouvelle_bankroll == b + gain_net
             nouvelle_entree == Ligne(date_str, "Pari", montant_pari, cote, resultat,
                                      gain_net, nouvelle_bankroll, "General")
             nd == Append(d, nouvelle_entree)
             s == Sauvegarder(nd, f, issue)
         IN [df |-> nd, bankroll |-> nouvelle_bankroll, feuille |-> s.feuille,
             ret |-> s.ret, ecriture |-> issue]

\* an ajouter_fonds that appends the event and leaves self.bankroll_actuelle
\* as it was
EffetAjouterFondsSansSolde(d, b, f, montant, type_operation, issue) ==
    IF ~TypeOperationValide(type_operation)
    THEN [df |-> d, bankroll |-> b, feuille |-> f, ret |-> "Erreur",
          ecriture |-> "aucune"]
    ELSE LET gain_net == GainNetFonds(montant, type_operation)
             nouvelle_entree == Ligne("aujourdhui", type_operation, 0, 0, "N/A",
                                      gain_net, b + gain_net, "N/A")
             nd == Append(d, nouvelle_entree)
             s == Sauvegarder(nd, f, issue)
         IN [df |-> nd, bankroll |-> b, feuille |-> s.feuille,
             ret |-> s.ret, ecriture |-> issue]

\* ajouter_fonds on a tracker holding (d, b) over the sheet f: what it leaves
EffetAjouterFonds(d, b, f, montant, type_operation, issue) ==
    IF ~TypeOperationValide(type_operation)
    THEN [df |-> d, bankroll |-> b, feuille |-> f, ret |-> "Erreur",
          ecriture |-> "aucune"]
    ELSE LET gain_net == GainNetFonds(montant, type_operation)
             nouvelle_bankroll == b + gain_net
             nouvelle_entree == Ligne("aujourdhui", type_operation, 0, 0, "N/A",
                                      gain_net, nouvelle_bankroll, "N/A")
             nd == Append(d, nouvelle_entree)
             s == Sauvegarder(nd, f, issue)
         IN [df |-> nd, bankroll |-> nouvelle_bankroll, feuille |-> s.feuille,
             ret |-> s.ret, ecriture |-> issue]

\* datetime.strptime(date_str, '%Y-%m-%d') accepts the date
DateValide(date_str) == date_str = "2024-01-15"

\* a test of the form that lets a stake of zero through
SaisieInvalideStricte(montant, cote) == montant < 0 \/ cote < 10

\* the test of line 242
SaisieInvalide(montant, cote) == montant <= 0 \/ cote < 10

\* what the widgets of form_fonds can deliver: number_input(min_value=0.01)
\* and radio(('DEPOT', 'RETRAIT'))
FondsFormulaire == {f \in Fonds : f[1] > 0 /\ f[2] \in {"DEPOT", "RETRAIT"}}

\* the WAGER events of the ledger, in order
LignesPari(d) == SelectSeq(d, LAMBDA l : l.Type = "Pari")

RECURSIVE TotalMise(_)
TotalMise(paris) ==
    IF paris = <<>> THEN 0 ELSE Head(paris).Montant_Pari + TotalMise(Tail(paris))

RECURSIVE ProfitNet(_)
ProfitNet(paris) ==
    IF paris = <<>> THEN 0 ELSE Head(paris).Gain_Net + ProfitNet(Tail(paris))

\* a / b * 100 in whole percent; dividing by zero raises ZeroDivisionError
Pourcentage(a, b) ==
    IF b = 0 THEN [erreur |-> TRUE, valeur |-> 0]
    ELSE [erreur |-> FALSE, valeur |-> (a * 100) \div b]

\* calculer_statistiques, elided from the class (lines 204-206): the record of
\* section 4.3, disponible FALSE being the "no statistics" result
CalculerStatistiques(d) ==
    LET paris == LignesPari(d)
        wager_count == Len(paris)
        total_staked == TotalMise(paris)
        net_wager_profit == ProfitNet(paris)
        gagnes == Len(SelectSeq(paris, LAMBDA l : l.Resultat = "Gagne"))
        roi == IF total_staked > 0 THEN Pourcentage(net_wager_profit, total_staked)
               ELSE [erreur |-> FALSE, valeur |-> 0]
        win_rate == IF wager_count = 0 THEN [erreur |-> FALSE, valeur |-> 0]
                    ELSE Pourcentage(gagnes, wager_count)
    IN [disponible |-> wager_count # 0,
        erreur |-> roi.erreur \/ win_rate.erreur,
        wager_count |-> wager_count,
        total_staked |-> total_staked,
        net_wager_profit |-> net_wager_profit,
        return_on_investment |-> roi.valeur,
        win_rate |-> win_rate.valeur]

\* a display that reads the ROI without testing what it was handed
DisplayStatsSansTest(d) ==
    LET stats == CalculerStatistiques(d)
    IN IF stats.erreur \/ ~stats.disponible THEN "Exception" ELSE "metriques"

\* display_stats: what the statistics column shows
DisplayStats(d) ==
    LET stats == CalculerStatistiques(d)
    IN IF stats.erreur THEN "Exception"
       ELSE IF stats.disponible THEN "metriques"
       ELSE "info"

\* the gateway calls one operation made: the read and the write
Appel(lecture, ecriture) == [lecture |-> lecture, ecriture |-> ecriture]

----------------------------------------------------------------------------
(* The state machine *)

\* BankrollTracker(solde_initial) over a sheet of F with a starting balance of
\* S, with any outcome of the read
Construire(F, S) ==
    /\ feuille \in F
    /\ solde_initial \in S
    /\ \E issue \in IssuesLecture :
          /\ df = ChargerOuInitialiserDf(feuille, issue, solde_initial)
          /\ appel = Appel(issue, "aucune")
    /\ bankroll_actuelle = BankrollDe(df, solde_initial)
    /\ cache = TRUE
    /\ ret = "None"
    /\ message = "aucun"

\* tracker.ajouter_pari(...) called on the cached tracker
AjouterPari(date_str, montant_pari, cote, resultat, issue) ==
    /\ cache
    /\ LET e == EffetAjouterPari(df, bankroll_actuelle, feuille, date_str,
                                 montant_pari, cote, resultat, issue)
       IN /\ df' = e.df
          /\ bankroll_actuelle' = e.bankroll
          /\ feuille' = e.feuille
          /\ ret' = e.ret
          /\ appel' = Appel("aucune", e.ecriture)
    /\ message' = "aucun"
    /\ UNCHANGED <<solde_initial, cache>>

\* tracker.ajouter_fonds(...) called on the cached tracker
AjouterFonds(montant, type_operation, issue) ==
    /\ cache
    /\ LET e == EffetAjouterFonds(df, bankroll_actuelle, feuille, montant,
                                  type_operation, issue)
       IN /\ df' = e.df
          /\ bankroll_actuelle' = e.bankroll
          /\ feuille' = e.feuille
          /\ ret' = e.ret
          /\ appel' = Appel("aucune", e.ecriture)
    /\ message' = "aucun"
    /\ UNCHANGED <<solde_initial, cache>>

\* add_pari(tracker, form_data)
AddPari(date_str, montant, cote, resultat, issue) ==
    /\ cache
    /\ IF ~DateValide(date_str)
       THEN /\ message' = "erreur_saisie"
            /\ ret' = "None"
            /\ appel' = Appel("aucune", "aucune")
            /\ UNCHANGED <<feuille, df, bankroll_actuelle, cache>>
       ELSE IF SaisieInvalide(montant, cote)
       THEN /\ message' = "erreur_invalide"
            /\ ret' = "None"
            /\ appel' = Appel("aucune", "aucune")
            /\ UNCHANGED <<feuille, df, bankroll_actuelle, cache>>
       ELSE LET e == EffetAjouterPari(df, bankroll_actuelle, feuille, date_str,
                                      montant, cote, resultat, issue)
            IN /\ df' = e.df
               /\ bankroll_actuelle' = e.bankroll
               /\ feuille' = e.feuille
               /\ ret' = e.ret
               /\ appel' = Appel("aucune", e.ecriture)
               /\ message' = IF e.ret = "Exception" THEN "erreur_inattendue"
                             ELSE IF Truthy(e.ret) THEN "succes"
                             ELSE "erreur_sauvegarde"
               \* st.cache_resource.clear() on the success branch
               /\ cache' = ~(e.ret # "Exception" /\ Truthy(e.ret))
    /\ UNCHANGED solde_initial

\* the form_fonds branch of main()
FormFonds(montant_fonds, type_operation, issue) ==
    /\ cache
    /\ LET e == EffetAjouterFonds(df, bankroll_actuelle, feuille, montant_fonds,
                                  type_operation, issue)
       IN /\ df' = e.df
          /\ bankroll_actuelle' = e.bankroll
          /\ feuille' = e.feuille
          /\ ret' = e.ret
          /\ appel' = Appel("aucune", e.ecriture)
          /\ message' = IF e.ret = "Exception" THEN "exception"
                        ELSE IF Truthy(e.ret) THEN "succes"
                        ELSE "erreur_fonds"
          /\ cache' = ~(e.ret # "Exception" /\ Truthy(e.ret))
    /\ UNCHANGED solde_initial

\* load_tracker() on the rerun that follows a cleared cache
LoadTracker(issue) ==
    /\ ~cache
    /\ solde_initial' = BANKROLL_INIT
    /\ df' = ChargerOuInitialiserDf(feuille, issue, BANKROLL_INIT)
    /\ bankroll_actuelle' = BankrollDe(df', BANKROLL_INIT)
    /\ cache' = TRUE
    /\ ret' = "None"
    /\ message' = "aucun"
    /\ appel' = Appel(issue, "aucune")
    /\ UNCHANGED feuille

Init == Construire(Feuilles, SoldesInitiaux)

\* the ledger has room for one more row under the bound n
Place(n) == Len(df) < n

\* the class on its own: a constructed tracker and calls of its two operations
Next ==
    \/ \E p \in Paris, i \in IssuesEcriture :
          Place(MaxRows) /\ AjouterPari("2024-01-15", p[1], p[2], p[3], i)
    \/ \E f \in Fonds, i \in IssuesEcriture :
          Place(MaxRows) /\ AjouterFonds(f[1], f[2], i)

Spec == Init /\ [][Next]_vars

\* the application: main() gets its tracker from load_tracker(), the forms call
\* add_pari and ajouter_fonds, a cleared cache makes the next run reload, and
\* the two operations of the cached tracker stay callable
InitApp == Construire(FeuillesApp, {BANKROLL_INIT})

NextApp ==
    \/ \E f \in Formulaires, i \in IssuesEcriture :
          Place(MaxRowsApp) /\ AddPari(f[1], f[2], f[3], f[4], i)
    \/ \E f \in FondsFormulaire, i \in IssuesEcriture :
          Place(MaxRowsApp) /\ FormFonds(f[1], f[2], i)
    \/ \E i \in IssuesLecture : LoadTracker(i)
    \/ \E p \in Paris, i \in IssuesEcriture :
          Place(MaxRowsApp) /\ AjouterPari("2024-01-15", p[1], p[2], p[3], i)
    \/ \E f \in Fonds, i \in IssuesEcriture :
          Place(MaxRowsApp) /\ AjouterFonds(f[1], f[2], i)

SpecApp == InitApp /\ [][NextApp]_vars

----------------------------------------------------------------------------
(* Vocabulary of the properties *)

Dernier(d) == d[Len(d)]

Soldes(d) == [i \in 1..Len(d) |-> d[i].Bankroll_Finale]

\* the sheet is one the load accepts: the columns are there and the first row
\* is the DEBUT row
Acceptee(f) == f.colonnes /\ f.lignes # <<>> /\ f.lignes[1].Type = "DEBUT"

\* the tracker has just been built over the sheet, whose read succeeded
ApresLecture == appel.lecture = "ok" /\ Acceptee(feuille)

\* g holds the rows of f but for the Bankroll_Finale cells of the rows k, k+1, ...
DiffereParSolde(f, g, k) ==
    /\ f.colonnes = g.colonnes
    /\ Len(f.lignes) = Len(g.lignes)
    /\ \A i \in 1..Len(f.lignes) :
          IF i >= k
          THEN [f.lignes[i] EXCEPT !.Bankroll_Finale = <<>>]
               = [g.lignes[i] EXCEPT !.Bankroll_Finale = <<>>]
          ELSE f.lignes[i] = g.lignes[i]

\* the stored deltas of the first i rows, added by hand
RECURSIVE SommeGains(_, _)
SommeGains(lignes, i) ==
    IF i = 0 THEN 0
    ELSE SommeGains(lignes, i - 1)
         + (IF Len(lignes[i].Gain_Net) = 1 THEN lignes[i].Gain_Net[1] ELSE 0)

\* the net_delta table of the specification, the odds in tenths
TableDeltaPari(stake, odds, outcome) ==
    CASE outcome = "Gagne"  -> (stake * odds) \div 10 - stake
      [] outcome = "Perdu"  -> 0 - stake
      [] outcome = "Annule" -> 0

TableDeltaFonds(amount, operation) ==
    CASE operation = "DEPOT"   -> amount
      [] operation = "RETRAIT" -> 0 - amount

\* this step appended one event of the given delta to the ledger of balance B
AjoutDe(delta) ==
    /\ Len(df') = Len(df) + 1
    /\ SubSeq(df', 1, Len(df)) = df
    /\ Dernier(df').Gain_Net = delta
    /\ Dernier(df').Bankroll_Finale = bankroll_actuelle + delta
    /\ bankroll_actuelle' = bankroll_actuelle + delta

\* this step left the ledger, its balance and the sheet as they were
SansEffet ==
    /\ df' = df
    /\ bankroll_actuelle' = bankroll_actuelle
    /\ feuille' = feuille

----------------------------------------------------------------------------
(* The claims *)

\* C1 (as claimed): in every reachable state the ledger is non-empty, its first
\* event is the DEBUT event and no other event is a DEBUT event. The load only
\* looks at the first row, so a sheet holding a second DEBUT row refutes it.
C1_AnchorInvariant ==
    /\ df # <<>>
    /\ df[1].Type = "DEBUT"
    /\ \A i \in 2..Len(df) : df[i].Type # "DEBUT"

\* C2: after the load of any sheet and after any appends, saved or not, every
\* row after the first holds Bankroll_Finale[i] = Bankroll_Finale[i-1] + Gain_Net[i].
C2_CumulativeSum ==
    \A i \in 2..Len(df) :
        df[i].Bankroll_Finale = df[i - 1].Bankroll_Finale + df[i].Gain_Net

\* a loaded row whose stored Bankroll_Finale was wrong, followed by an append
\* whose save failed
C2_Witness ==
    /\ Len(df) = 3
    /\ Len(feuille.lignes) = 2
    /\ feuille.lignes[2].Bankroll_Finale = <<50>>
    /\ df[2].Date = "2024-01-02"
    /\ df[2].Bankroll_Finale # 50
    /\ appel.ecriture = "sans_connexion"

\* C3 (as claimed): two accepted sheets that differ only in their
\* Bankroll_Finale column, in any row, load to the same Bankroll_Finale in
\* every row and the same balance.
C3_SelfHealingAnyRow ==
    ApresLecture =>
        \A g \in Feuilles :
            DiffereParSolde(feuille, g, 1) =>
                Soldes(ChargerOuInitialiserDf(g, "ok", solde_initial)) = Soldes(df)

\* C3 (amended): two accepted sheets that differ only in the Bankroll_Finale
\* cells of rows after the first load to the same Bankroll_Finale in every row,
\* and the balance is the first row's stored Bankroll_Finale plus the stored
\* deltas of all rows added by hand.
C3_SelfHealingAfterAnchor ==
    ApresLecture =>
        /\ \A g \in Feuilles :
              DiffereParSolde(feuille, g, 2) =>
                  Soldes(ChargerOuInitialiserDf(g, "ok", solde_initial)) = Soldes(df)
        /\ bankroll_actuelle =
              ToNumeric(feuille.lignes[1].Bankroll_Finale)
              + SommeGains(feuille.lignes, Len(feuille.lignes))

\* a two-row sheet just loaded whose second row stored a Bankroll_Finale that
\* the deltas do not give
C3_Witness ==
    /\ ApresLecture
    /\ Len(feuille.lignes) = 2
    /\ feuille.lignes[2].Bankroll_Finale = <<50>>
    /\ feuille.lignes[2].Type = "Pari"
    /\ df[2].Bankroll_Finale # 50

\* C4: an ajouter_pari with one of the three results appends an event whose
\* Gain_Net is the table's delta, and an ajouter_fonds with DEPOT or RETRAIT one
\* of +montant or -montant; the new event's Bankroll_Finale and the new balance
\* are both the balance before plus that delta. (An accepted step logs the
\* outcome of its save in appel, so that outcome is the one to try.)
C4_AppendArithmetic ==
    [][ /\ \A p \in Paris, i \in {appel'.ecriture} \cap IssuesEcriture :
              (/\ p[3] \in {"Gagne", "Perdu", "Annule"}
               /\ AjouterPari("2024-01-15", p[1], p[2], p[3], i))
                  => AjoutDe(TableDeltaPari(p[1], p[2], p[3]))
        /\ \A f \in Fonds, i \in {appel'.ecriture} \cap IssuesEcriture :
              (/\ f[2] \in {"DEPOT", "RETRAIT"}
               /\ AjouterFonds(f[1], f[2], i))
                  => AjoutDe(TableDeltaFonds(f[1], f[2]))
      ]_vars

\* a wager of 10 won at odds 2.5 on a balance of 100: delta 15, balance 115
C4_Witness ==
    /\ Len(df) = 2
    /\ df[1].Bankroll_Finale = 100
    /\ df[2].Type = "Pari"
    /\ df[2].Montant_Pari = 10
    /\ df[2].Cote = 25
    /\ df[2].Resultat = "Gagne"
    /\ df[2].Gain_Net = 15
    /\ df[2].Bankroll_Finale = 115
    /\ bankroll_actuelle = 115
    /\ appel.ecriture # "aucune"

\* C5: an ajouter_pari whose result is none of the three and an ajouter_fonds
\* whose type is neither DEPOT nor RETRAIT leave the ledger and the balance as
\* they were and call no save.
C5_BadTagRejected ==
    [][ /\ \A p \in Paris, i \in IssuesEcriture :
              (/\ p[3] \notin {"Gagne", "Perdu", "Annule"}
               /\ AjouterPari("2024-01-15", p[1], p[2], p[3], i))
                  => (SansEffet /\ appel'.ecriture = "aucune" /\ ret' = "Erreur")
        /\ \A f \in Fonds, i \in IssuesEcriture :
              (/\ f[2] \notin {"DEPOT", "RETRAIT"}
               /\ AjouterFonds(f[1], f[2], i))
                  => (SansEffet /\ appel'.ecriture = "aucune" /\ ret' = "Erreur")
      ]_vars

\* a rejection on a ledger that holds more than its DEBUT row
C5_Witness ==
    /\ ret = "Erreur"
    /\ appel.ecriture = "aucune"
    /\ Len(df) >= 2

\* C6 (as claimed): a wager with stake <= 0 or odds < 1.0 is refused and leaves
\* the ledger and its balance as they were, whether it comes through add_pari
\* or through ajouter_pari itself.
C6_BadWagerRejectedEverywhere ==
    [][ \A f \in Formulaires, i \in IssuesEcriture :
            (/\ (f[2] <= 0 \/ f[3] < 10)
             /\ (AddPari(f[1], f[2], f[3], f[4], i)
                    \/ AjouterPari(f[1], f[2], f[3], f[4], i)))
                => SansEffet
      ]_vars

\* C6 (amended): a wager with stake <= 0 or odds < 1.0 that comes through
\* add_pari is refused with the invalid-input message and leaves the ledger,
\* its balance, the sheet and the cached tracker as they were.
C6_BadWagerRejectedByAddPari ==
    [][ \A f \in Formulaires, i \in IssuesEcriture :
            (/\ (f[2] <= 0 \/ f[3] < 10)
             /\ AddPari(f[1], f[2], f[3], f[4], i))
                => (/\ SansEffet
                    /\ message' = "erreur_invalide"
                    /\ appel'.ecriture = "aucune"
                    /\ cache')
      ]_vars

\* add_pari has refused a form on a loaded ledger whose balance is not zero
C6_Witness ==
    /\ message = "erreur_invalide"
    /\ appel.ecriture = "aucune"
    /\ bankroll_actuelle # 0
    /\ cache

\* C7 (as claimed): an ajouter_fonds with a montant <= 0 is refused and leaves
\* the ledger and its balance as they were. The method tests the type alone.
C7_BadAmountRejected ==
    [][ \A f \in Fonds, i \in IssuesEcriture :
            (/\ f[1] <= 0
             /\ AjouterFonds(f[1], f[2], i))
                => (SansEffet /\ ret' = "Erreur")
      ]_vars

\* C8 (as claimed): when a form shows its success message, the step appended
\* an event and the save went through, so the sheet holds the ledger's rows.
\* The error string ajouter_pari returns for a bad result is truthy.
C8_SuccessMeansSaved ==
    [][ message' = "succes" =>
            (/\ Len(df') = Len(df) + 1
             /\ appel'.ecriture = "ok"
             /\ feuille' = FeuilleDe(df'))
      ]_vars

\* this step kept the new event although its save, of outcome i, did not go
\* through: the caller is not told success, the balance counts the event and
\* the sheet lacks it
EchecSansRetour(i) ==
    /\ ret' \in {"False", "Exception"}
    /\ ~Truthy(ret')
    /\ i = "sans_connexion" => ret' = "False"
    /\ Len(df') = Len(df) + 1
    /\ SubSeq(df', 1, Len(df)) = df
    /\ bankroll_actuelle' = bankroll_actuelle + Dernier(df').Gain_Net
    /\ bankroll_actuelle' = Dernier(df').Bankroll_Finale
    /\ feuille' # FeuilleDe(df')
    /\ i # "echec_update" => feuille' = feuille

\* C9: when the save of an accepted append fails, the caller is told so, the
\* new event stays in the ledger, the balance counts its Gain_Net, and the
\* sheet does not hold it.
C9_FailedSaveKeepsEvent ==
    [][ \A i \in {appel'.ecriture} \cap (IssuesEcriture \ {"ok"}) :
          /\ \A p \in Paris :
                (/\ p[3] \in {"Gagne", "Perdu", "Annule"}
                 /\ AjouterPari("2024-01-15", p[1], p[2], p[3], i))
                    => EchecSansRetour(i)
          /\ \A f \in Fonds :
                (/\ f[2] \in {"DEPOT", "RETRAIT"}
                 /\ AjouterFonds(f[1], f[2], i))
                    => EchecSansRetour(i)
      ]_vars

\* two appends in a row whose saves failed: the ledger is two events ahead of
\* the sheet
C9_Witness ==
    /\ ret = "False"
    /\ appel.ecriture = "sans_connexion"
    /\ Len(df) = 3
    /\ Len(feuille.lignes) <= 1
    /\ bankroll_actuelle = df[1].Bankroll_Finale + df[2].Gain_Net + df[3].Gain_Net
    /\ df[2].Gain_Net # 0

\* C10: when the read fails, or the sheet holds no rows, lacks a column or
\* starts with a row that is not the DEBUT row, the tracker built holds one
\* event, a DEBUT of Gain_Net 0 and Bankroll_Finale solde_initial, its balance
\* is solde_initial, and nothing is raised.
C10_LoadFallback ==
    (/\ appel.lecture # "aucune"
     /\ \/ appel.lecture # "ok"
        \/ feuille.lignes = <<>>
        \/ ~feuille.colonnes
        \/ feuille.lignes[1].Type # "DEBUT")
        => (/\ Len(df) = 1
            /\ df[1].Type = "DEBUT"
            /\ df[1].Gain_Net = 0
            /\ df[1].Bankroll_Finale = solde_initial
            /\ bankroll_actuelle = solde_initial
            /\ ret = "None"
            /\ cache)

\* a tracker of starting balance 100 built over a two-row sheet that was read
\* and starts with a wager
C10_Witness ==
    /\ appel.lecture = "ok"
    /\ solde_initial = 100
    /\ Len(feuille.lignes) = 2
    /\ feuille.colonnes
    /\ feuille.lignes[1].Type = "Pari"
    /\ Len(df) = 1

\* C11 (as claimed): in every reachable state the Bankroll_Finale of the DEBUT
\* event is the tracker's solde_initial. The recomputation starts from the
\* Bankroll_Finale the sheet stored for the DEBUT row, not from solde_initial.
C11_AnchorEqualsSolde ==
    df # <<>> /\ df[1].Bankroll_Finale = solde_initial

\* C11 (amended): the Bankroll_Finale of the first event is solde_initial when
\* the load fell back to a fresh ledger; when an accepted sheet was loaded it is
\* the Bankroll_Finale the sheet stored for its first row plus that row's
\* stored Gain_Net; and no append changes it.
C11_AnchorFromSheet ==
    /\ [](appel.lecture # "aucune" =>
             df[1].Bankroll_Finale =
                 IF ApresLecture
                 THEN ToNumeric(feuille.lignes[1].Bankroll_Finale)
                      + ToNumeric(feuille.lignes[1].Gain_Net)
                 ELSE solde_initial)
    /\ [][df'[1].Bankroll_Finale = df[1].Bankroll_Finale]_vars

\* a ledger of starting balance 100 loaded from a sheet whose DEBUT row stored
\* 50, after one append: the DEBUT event still holds 50
C11_Witness ==
    /\ solde_initial = 100
    /\ Len(df) = 2
    /\ df[1].Type = "DEBUT"
    /\ df[1].Date = "2024-01-01"
    /\ df[1].Bankroll_Finale = 50
    /\ appel.ecriture # "aucune"

\* C12 (as claimed): on every reachable ledger a second pass of
\* calculer_bankroll_historique leaves every Bankroll_Finale and the balance as
\* the first pass left them. The pass adds the DEBUT row's own Gain_Net to the
\* DEBUT row's Bankroll_Finale, so a DEBUT row of Gain_Net 20 moves at each pass.
C12_RecomputeIdempotent ==
    LET encore == CalculerBankrollHistorique(df, solde_initial)
    IN /\ Soldes(encore) = Soldes(df)
       /\ BankrollDe(encore, solde_initial) = bankroll_actuelle

\* the Gain_Net the table gives for the row's own type, stake, odds and result
DeltaDeLaLigne(l) ==
    IF l.Type = "Pari" /\ l.Resultat \in {"Gagne", "Perdu", "Annule"}
    THEN TableDeltaPari(l.Montant_Pari, l.Cote, l.Resultat)
    ELSE IF l.Type = "DEBUT" THEN 0
    ELSE l.Gain_Net

\* C13 (as claimed): in every reachable state every event's Gain_Net is what
\* the table gives for its own type, stake, odds and result, so a stored
\* Gain_Net that disagrees is replaced on load. The load converts the stored
\* cell to a number and keeps it.
C13_DeltaDerived ==
    \A i \in 1..Len(df) : df[i].Gain_Net = DeltaDeLaLigne(df[i])

\* C13 (amended): the load keeps the Gain_Net each accepted row stored (0 when
\* the cell is not a number) and the balance counts it; an event appended by
\* ajouter_pari holds the Gain_Net the table gives for its own stake, odds and
\* result; and no append changes the Gain_Net of an earlier event.
C13_DeltaStoredOrDerived ==
    /\ [](/\ (appel.lecture # "aucune" /\ ApresLecture) =>
                \A i \in 1..Len(df) :
                    df[i].Gain_Net = ToNumeric(feuille.lignes[i].Gain_Net)
          /\ bankroll_actuelle = df[1].Bankroll_Finale - df[1].Gain_Net
                                   + Cumsum(df, Len(df)))
    /\ [][/\ \A i \in 1..Len(df) : df'[i].Gain_Net = df[i].Gain_Net
          /\ (Len(df') = Len(df) + 1 /\ Dernier(df').Type = "Pari") =>
                Dernier(df').Gain_Net = DeltaDeLaLigne(Dernier(df'))]_vars

\* a loaded wager of 10 won at odds 2.5 whose stored Gain_Net of 20 is kept,
\* followed by an appended wager of the same terms that holds 15
C13_Witness ==
    /\ Len(df) = 3
    /\ df[2].Type = "Pari"
    /\ df[2].Date = "2024-01-02"
    /\ df[2].Montant_Pari = 10 /\ df[2].Cote = 25 /\ df[2].Resultat = "Gagne"
    /\ df[2].Gain_Net = 20
    /\ df[3].Type = "Pari"
    /\ df[3].Montant_Pari = 10 /\ df[3].Cote = 25 /\ df[3].Resultat = "Gagne"
    /\ df[3].Gain_Net = 15
    /\ bankroll_actuelle = df[1].Bankroll_Finale + 35

\* the stakes and the deltas of the WAGER events among the first i events
RECURSIVE MisesJusqua(_, _)
MisesJusqua(d, i) ==
    IF i = 0 THEN 0
    ELSE MisesJusqua(d, i - 1) + (IF d[i].Type = "Pari" THEN d[i].Montant_Pari ELSE 0)

RECURSIVE ProfitsJusqua(_, _)
ProfitsJusqua(d, i) ==
    IF i = 0 THEN 0
    ELSE ProfitsJusqua(d, i - 1) + (IF d[i].Type = "Pari" THEN d[i].Gain_Net ELSE 0)

C15_BalanceIsLastRow ==
    /\ df # <<>>
    /\ bankroll_actuelle = Dernier(df).Bankroll_Finale

\* a rejected append that follows an append whose save failed, on a ledger
\* whose balance has moved
C15_Witness ==
    /\ ret = "Erreur"
    /\ Len(df) = 2
    /\ feuille # FeuilleDe(df)
    /\ df[2].Date \in {"2024-01-15", "aujourdhui"}
    /\ df[2].Gain_Net # 0
    /\ bankroll_actuelle = df[1].Bankroll_Finale + df[2].Gain_Net

\* C16: an accepted ajouter_pari or ajouter_fonds (one that went as far as the
\* save) makes the ledger one event longer, the new event last, and leaves
\* every earlier event, all its fields, where it was; a rejected one leaves the
\* ledger as it was; so no step of the tracker removes or rewrites an event.
C16_AppendOnly ==
    [][ /\ Len(df') >= Len(df)
        /\ SubSeq(df', 1, Len(df)) = df
        /\ appel'.ecriture # "aucune" =>
              /\ Len(df') = Len(df) + 1
              /\ Dernier(df').Type \in {"Pari", "DEPOT", "RETRAIT"}
        /\ appel'.ecriture = "aucune" => df' = df
      ]_vars

\* a loaded DEBUT row followed by an appended wager and an appended withdrawal
C16_Witness ==
    /\ Len(df) = 3
    /\ df[1].Date = "2024-01-01"
    /\ df[2].Type = "Pari" /\ df[2].Date = "2024-01-15"
    /\ df[3].Type = "RETRAIT"
    /\ appel.ecriture = "ok"

\* the sheet holds the rows of d, all of them and nothing else: read back, its
\* rows are the events of d in order
FeuilleRelue(f, d) ==
    /\ f.colonnes
    /\ Len(f.lignes) = Len(d)
    /\ \A i \in 1..Len(d) : ConvertirLigne(f.lignes[i]) = d[i]

\* C17: every accepted append calls the save once, on the whole ledger; right
\* after a save that succeeds the sheet holds every event of the ledger, those
\* whose own save had failed included; a save that does not succeed never
\* leaves part of the ledger in the sheet.
C17_FullWriteBack ==
    [][ /\ Len(df') = Len(df) + 1 => appel'.ecriture \in IssuesEcriture
        /\ appel'.ecriture = "ok" => (ret' = "True" /\ FeuilleRelue(feuille', df'))
        /\ ret' = "True" => appel'.ecriture = "ok"
        /\ appel'.ecriture \notin {"ok", "aucune"} =>
              feuille' \in {feuille, FeuilleVide}
      ]_vars

\* a save that has just succeeded on a ledger of a DEBUT row and two appended
\* events, all three in the sheet
C17_Witness ==
    /\ appel.ecriture = "ok"
    /\ ret = "True"
    /\ Len(df) = 3
    /\ df[2].Date \in {"2024-01-15", "aujourdhui"}
    /\ df[3].Date \in {"2024-01-15", "aujourdhui"}
    /\ df[1].Date = "aujourdhui"
    /\ FeuilleRelue(feuille, df)

\* C18 (as claimed): whichever way the save of an accepted append fails (no
\* connection, sheet.clear() failing, sheet.update() failing after the clear),
\* the append hands False to its caller and raises nothing. _sauvegarder has no
\* handler around clear() and update(), so their failures leave as exceptions.
C18_SaveFailureIsValue ==
    [][ appel'.ecriture \in IssuesEcriture \ {"ok"} => ret' = "False" ]_vars

\* the events a sheet holds, the Bankroll_Finale column left aside
Evenements(f) ==
    [i \in 1..Len(f.lignes) |->
        [ConvertirLigne(f.lignes[i]) EXCEPT !.Bankroll_Finale = 0]]

\* C19 (as claimed): across sessions, each a load followed by appends, with
\* any outcomes of the reads and the saves, every save that succeeds over a
\* sheet the load accepts writes a sequence that starts with the events the
\* sheet held (the DEBUT row may be a fresh one, the events after it are
\* those of the sheet). A tracker whose read failed holds a fresh DEBUT row
\* alone, and its next successful save replaces the sheet by that row and the
\* new event.
C19_HistoryKept ==
    [][ (appel'.ecriture = "ok" /\ Acceptee(feuille)) =>
            /\ Len(feuille'.lignes) >= Len(feuille.lignes)
            /\ feuille'.lignes[1].Type = "DEBUT"
            /\ \A i \in 2..Len(feuille.lignes) :
                   Evenements(feuille')[i] = Evenements(feuille)[i]
      ]_vars

\* C20 (as claimed): after an append whose save succeeded, the reload that the
\* cleared cache brings, reading the sheet without failure, gives the ledger
\* that was in memory: the same events in the same order, the same Gain_Net
\* and Bankroll_Finale in each, the same balance. The reload's recomputation
\* adds the DEBUT row's Gain_Net once more (see C12), so a ledger whose DEBUT
\* row holds a Gain_Net of 20 comes back 20 higher in every row.
C20_ReloadRoundTrip ==
    [][ (/\ ~cache /\ cache'
         /\ appel.ecriture = "ok"
         /\ appel'.lecture = "ok") =>
            /\ df' = df
            /\ bankroll_actuelle' = bankroll_actuelle
      ]_vars

====
